---------------------------- MODULE Spec2Model ----------------------------
(***************************************************************************)
(* A model of fluidize-python's local core: the in-memory Graph            *)
(* (core/modules/graph/model.py), the project-scoped GraphProcessor        *)
(* (core/modules/graph/processor.py) with graph.json and the node          *)
(* workspaces, and the run orchestration of RunsHandler.run_flow           *)
(* (backends/local/runs.py) with the local node execution                  *)
(* (core/modules/run/node/methods/local/Execute.py).                       *)
(***************************************************************************)
EXTENDS Integers, Sequences, FiniteSets, TLC

(***************************************************************************)
(* Bounds of the model.                                                    *)
(***************************************************************************)
\* node positions range over 0..MaxPos
MaxPos == 1
\* node ids and edge ids offered to the operations, in id order
IdOrder == <<"A", "B", "C", "e1", "e2", "e3", "e4">>
NodeIds == {"A", "B", "C"}
EdgeIds == {"e1", "e2"}
\* simulation ids: "" is no simulation_id, "sim" names a template that has a
\* metadata file, "nope" names one that has none
SimIds == {"", "sim", "nope"}
\* a graph.json handed to run planning holds at most MaxFileEdges edges,
\* with the ids EdgeIdAt[1], EdgeIdAt[2], ...
MaxFileEdges == 3
\* a graph.json that is run holds at most MaxRunEdges edges
MaxRunEdges == 2
\* before the first call runs/ is empty or holds one run_<n>, n <= MaxPreRun
MaxPreRun == 2
\* run_flow is called at most MaxCalls times
MaxCalls == 2
\* threads 1..MaxThreads call run_flow at the same time
MaxThreads == 2
EdgeIdAt == <<"e1", "e2", "e3", "e4">>

(***************************************************************************)
(* core/types/graph.py: GraphNode, GraphEdge (the fields that carry        *)
(* behaviour: id, position, data.simulation_id; id, source, target).       *)
(***************************************************************************)
GraphNode == [id : NodeIds, position : 0..MaxPos, simulation_id : SimIds]

GraphEdge == [id : EdgeIds, source : NodeIds, target : NodeIds]

\* the nodes offered to the operations: every id at every position, each id
\* with one simulation id, so that the three cases of insert_node all occur
SimulationOf == [k \in NodeIds |-> IF k = "A" THEN "" ELSE IF k = "B" THEN "sim" ELSE "nope"]

NodeInputs == {n \in GraphNode : n.simulation_id = SimulationOf[n.id]}

\* the edges offered to GraphProcessor: each edge id over a chain A -> B -> C,
\* the back edge B -> A (a cycle) and the self-loop A -> A
EdgePairs == {<<"A", "B">>, <<"B", "C">>, <<"B", "A">>, <<"A", "A">>}

EdgeInputs == {e \in GraphEdge : <<e.source, e.target>> \in EdgePairs}

(***************************************************************************)
(* Python dicts keyed by id.  A dict is a function on its set of keys;     *)
(* values() lists it in id order (the insertion order of the dict is not   *)
(* kept: no operation reads it).                                           *)
(***************************************************************************)
EmptyDict == [k \in {} |-> k]

\* d[item.id] = item
DictPut(d, item) ==
  [k \in (DOMAIN d) \cup {item.id} |-> IF k = item.id THEN item ELSE d[k]]

\* del d[key]
DictDel(d, key) == [k \in (DOMAIN d) \ {key} |-> d[k]]

\* {x.id: x for x in list}: a later item of the same id replaces an earlier one
DictOf(list) ==
  [k \in {list[i].id : i \in DOMAIN list} |->
     list[CHOOSE i \in DOMAIN list :
            list[i].id = k /\ \A j \in DOMAIN list : j > i => list[j].id # k]]

\* list(d.values())
Values(d) ==
  LET keys == SelectSeq(IdOrder, LAMBDA k : k \in DOMAIN d)
  IN  [i \in 1..Len(keys) |-> d[keys[i]]]

(***************************************************************************)
(* core/modules/graph/model.py: class Graph.  A graph value is             *)
(* [nodes |-> dict, edges |-> dict]; an operation that can raise returns   *)
(* [graph |-> ..., raised |-> ...].                                        *)
(***************************************************************************)
Graph(nodes, edges) == [nodes |-> DictOf(nodes), edges |-> DictOf(edges)]

EmptyGraph == Graph(<<>>, <<>>)

add_node_toggle(g, node) ==
  IF node.id \in DOMAIN g.nodes /\ g.nodes[node.id] = node
  THEN [g EXCEPT !.nodes = DictDel(g.nodes, node.id)]
  ELSE [g EXCEPT !.nodes = DictPut(g.nodes, node)]

add_node(g, node) == [g EXCEPT !.nodes = DictPut(g.nodes, node)]

remove_edge(g, edge_id) ==
  IF edge_id \in DOMAIN g.edges
  THEN [g EXCEPT !.edges = DictDel(g.edges, edge_id)]
  ELSE g

\* remove_edge for each id of a set of ids
RECURSIVE remove_edges(_, _)
remove_edges(g, ids) ==
  IF ids = {} THEN g
  ELSE LET e == CHOOSE x \in ids : TRUE
       IN  remove_edges(remove_edge(g, e), ids \ {e})

remove_node_no_cascade(g, node_id) ==
  IF node_id \in DOMAIN g.nodes
  THEN [g EXCEPT !.nodes = DictDel(g.nodes, node_id)]
  ELSE g

remove_node(g, node_id) ==
  IF node_id \in DOMAIN g.nodes
  THEN LET g1 == [g EXCEPT !.nodes = DictDel(g.nodes, node_id)]
           connected_edge_ids ==
             {e \in DOMAIN g1.edges :
                g1.edges[e].source = node_id \/ g1.edges[e].target = node_id}
       IN  remove_edges(g1, connected_edge_ids)
  ELSE g

add_edge_unchecked(g, edge) ==
  [graph |-> [g EXCEPT !.edges = DictPut(g.edges, edge)], raised |-> "none"]

add_edge(g, edge) ==
  IF edge.source \notin DOMAIN g.nodes \/ edge.target \notin DOMAIN g.nodes
  THEN [graph |-> g, raised |-> "InvalidEdgeError"]
  ELSE [graph |-> [g EXCEPT !.edges = DictPut(g.edges, edge)], raised |-> "none"]

validate_edge(g, edge) ==
  edge.source \in DOMAIN g.nodes /\ edge.target \in DOMAIN g.nodes

validate(g) ==
  \A e \in DOMAIN g.edges :
    g.edges[e].source \in DOMAIN g.nodes /\ g.edges[e].target \in DOMAIN g.nodes

heal_none(g) == g

heal_drops_all(g) == [g EXCEPT !.edges = EmptyDict]

heal(g) ==
  remove_edges(g, {e \in DOMAIN g.edges : ~validate_edge(g, g.edges[e])})

to_graph_data_drops_edges(g) == [nodes |-> Values(g.nodes), edges |-> <<>>]

to_graph_data(g) == [nodes |-> Values(g.nodes), edges |-> Values(g.edges)]

(***************************************************************************)
(* Graph.from_file and Graph.save_to_file on the content of graph.json.    *)
(* A file is [kind, data]: "absent" (no file), "json" (a complete JSON     *)
(* document, data its nodes and edges lists), "empty" (zero bytes) or      *)
(* "partial" (a prefix of a document).                                     *)
(***************************************************************************)
EmptyGraphData == [nodes |-> <<>>, edges |-> <<>>]

AbsentFile == [kind |-> "absent", data |-> EmptyGraphData]

JsonFile(data) == [kind |-> "json", data |-> data]

from_file_lenient(f) ==
  IF f.kind = "json"
  THEN [graph |-> Graph(f.data.nodes, f.data.edges), raised |-> "none"]
  ELSE [graph |-> EmptyGraph, raised |-> "none"]

from_file(f) ==
  IF f.kind = "absent" THEN [graph |-> EmptyGraph, raised |-> "none"]
  ELSE IF f.kind = "json"
       THEN [graph |-> Graph(f.data.nodes, f.data.edges), raised |-> "none"]
       ELSE [graph |-> EmptyGraph, raised |-> "JSONDecodeError"]

save_to_file(g) == JsonFile(to_graph_data(g))

(***************************************************************************)
(* State.                                                                  *)
(***************************************************************************)
VARIABLES
  graph,     \* a Graph object in memory
  raised,    \* what the last call on it raised ("none" when it returned)
  file,      \* the project's graph.json
  dirs,      \* the node workspace directories <project>/<id>/ that exist
  outcome,   \* the last GraphProcessor call and what it did
  plan,      \* what the planning part of run_flow computed
  runDirs,   \* the n for which <project>/runs/run_<n>/ exists
  runs,      \* run number -> the state of that run's execute_flow
  calls,     \* the run_flow calls made so far, in order
  threads,   \* concurrent run_flow callers inside prepare_run_environment
  writer,    \* a save_to_file in progress
  exec,      \* one node's execution by LocalExecutionManager
  store      \* the project directory: metadata.yaml and parameters.json

vars == <<graph, raised, file, dirs, outcome, plan, runDirs, runs, calls, threads, writer, exec, store>>

graphVars == <<graph, raised>>
procVars == <<dirs, outcome>>
runVars == <<plan, runDirs, runs, calls, threads>>

NoOutcome ==
  [op |-> "none", arg |-> [id |-> ""], raised |-> "none", message |-> "",
   cause |-> "none", cause_message |-> "", copied |-> "no", saves |-> 0,
   dropped |-> {}, returned |-> [nodes |-> <<>>, edges |-> <<>>], repeated |-> FALSE]

NoPlan ==
  [planned |-> FALSE, nodes_to_run |-> <<>>, prev_nodes |-> EmptyDict, raised |-> "none"]

NoWriter == [pc |-> "idle", before |-> AbsentFile, pending |-> EmptyGraphData]

\* no docker command has been built
NoCommand ==
  [mounts |-> <<>>, env |-> [k \in {} |-> ""], workdir |-> "", entrypoint |-> "",
   image |-> "", script |-> ""]

NoReturn == [message |-> "", success |-> FALSE]

\* no project directory
NoStore == [dir |-> FALSE, metadata |-> "absent", parameters |-> "absent"]

NoExec ==
  [pc |-> "none", node_id |-> "", prev_node |-> "", run_id |-> "", output |-> <<>>,
   read |-> <<>>, pulls |-> 0, pull_ok |-> FALSE, command |-> NoCommand,
   launched |-> FALSE, events |-> <<>>, return_code |-> -1, exception |-> "none",
   returned |-> NoReturn, result |-> ""]

\* the variables a specification does not use stay at these values
IdleRun ==
  /\ plan = NoPlan
  /\ runDirs = {}
  /\ runs = EmptyDict
  /\ calls = <<>>
  /\ threads = EmptyDict

(***************************************************************************)
(* SpecGraph: a Graph object built from nothing by its four mutators.      *)
(***************************************************************************)
InitGraph ==
  /\ graph = EmptyGraph
  /\ raised = "none"
  /\ file = AbsentFile
  /\ dirs = {}
  /\ outcome = NoOutcome
  /\ IdleRun
  /\ writer = NoWriter
  /\ exec = NoExec
  /\ store = NoStore

AddNode ==
  \E node \in NodeInputs :
    /\ graph' = add_node(graph, node)
    /\ raised' = "none"
    /\ UNCHANGED <<file, procVars, runVars, writer, exec, store>>

RemoveNode ==
  \E node_id \in NodeIds :
    /\ graph' = remove_node(graph, node_id)
    /\ raised' = "none"
    /\ UNCHANGED <<file, procVars, runVars, writer, exec, store>>

AddEdge ==
  \E edge \in GraphEdge :
    LET r == add_edge(graph, edge)
    IN  /\ graph' = r.graph
        /\ raised' = r.raised
        /\ UNCHANGED <<file, procVars, runVars, writer, exec, store>>

RemoveEdge ==
  \E edge_id \in EdgeIds :
    /\ graph' = remove_edge(graph, edge_id)
    /\ raised' = "none"
    /\ UNCHANGED <<file, procVars, runVars, writer, exec, store>>

NextGraph == AddNode \/ RemoveNode \/ AddEdge \/ RemoveEdge

SpecGraph == InitGraph /\ [][NextGraph]_vars

\* C1: edge referential integrity. In every state reached from the empty graph
\* by add_node, remove_node, add_edge (failing ones included) and remove_edge,
\* validate() is true: every edge's source and target are nodes of the graph.
C1_EdgeIntegrity == validate(graph)

\* an edge survives beside two nodes after the third node was removed, and an
\* add_edge onto a missing node has just failed
C1_Witness ==
  /\ raised = "InvalidEdgeError"
  /\ DOMAIN graph.edges # {}
  /\ Cardinality(DOMAIN graph.nodes) = 2

(***************************************************************************)
(* Spec: one project driven through GraphProcessor.  graph.json starts as  *)
(* any file a project directory can hold: none, a document (orphan edges   *)
(* included, as after a hand edit) or a broken one; every node of the      *)
(* document has its workspace.                                             *)
(***************************************************************************)
DictsOver(ids, items) ==
  UNION {{d \in [S -> items] : \A k \in S : d[k].id = k} : S \in SUBSET ids}

InitFiles ==
  {AbsentFile, [kind |-> "partial", data |-> EmptyGraphData]} \cup
  {JsonFile([nodes |-> Values(n), edges |-> Values(e)]) :
     n \in DictsOver(NodeIds, NodeInputs), e \in DictsOver(EdgeIds, EdgeInputs)}

Init ==
  /\ graph = EmptyGraph
  /\ raised = "none"
  /\ file \in InitFiles
  /\ dirs = {n \in NodeIds : \E i \in 1..Len(file.data.nodes) : file.data.nodes[i].id = n}
  /\ outcome = NoOutcome
  /\ IdleRun
  /\ writer = NoWriter
  /\ exec = NoExec
  /\ store = NoStore

\* an exception is [type, message, cause, cause_message]; cause is the type
\* of the exception it was raised from
NoError == [type |-> "none", message |-> "", cause |-> "none", cause_message |-> ""]

Exception(type, message) ==
  [type |-> type, message |-> message, cause |-> "none", cause_message |-> ""]

\* what a GraphProcessor call did: the operation, its argument, the exception
\* that reached the caller, whether copy_directory was called ("no", "ok",
\* "failed"), how many times graph.json was saved, the ids of the edges the
\* save dropped from graph.json, the GraphData returned by get_graph, and,
\* for insert_node, whether the call before it was insert_node of the same node
Outcome(op, arg, error, copied, saves, dropped, returned) ==
  [op |-> op, arg |-> arg, raised |-> error.type, message |-> error.message,
   cause |-> error.cause, cause_message |-> error.cause_message,
   copied |-> copied, saves |-> saves, dropped |-> dropped, returned |-> returned,
   repeated |-> (op = "insert_node" /\ outcome.op = op /\ outcome.arg = arg)]

\* the edge ids of file f that file f2 no longer holds
Dropped(f, f2) ==
  DOMAIN DictOf(f.data.edges) \ DOMAIN DictOf(f2.data.edges)

\* DataLoader.check_file_exists(metadata_path): of the simulation library,
\* only the template "sim" has its metadata file
check_file_exists(simulation_id) == simulation_id = "sim"

SimulationNotFoundMessage(simulation_id) ==
  "Simulation '" \o simulation_id \o "' not found"

raise_simulation_not_found_error(simulation_id) ==
  Exception("ValueError", SimulationNotFoundMessage(simulation_id))

raise_copy_template_error_swallowed(error) == NoError

\* raise ValueError() from error
raise_copy_template_error(error) ==
  [type |-> "ValueError", message |-> "", cause |-> error.type,
   cause_message |-> error.message]

create_node_directory_unchecked(node, copy_ok) ==
  IF node.simulation_id # ""
  THEN IF copy_ok
       THEN [created |-> TRUE, copied |-> "ok", error |-> NoError]
       ELSE [created |-> FALSE, copied |-> "failed",
             error |-> raise_copy_template_error(Exception("Exception", "copy failed"))]
  ELSE [created |-> TRUE, copied |-> "no", error |-> NoError]

\* insert_node after the save: the node directory is a copy of the template
\* or a fresh directory; copy_ok is whether DataLoader.copy_directory returns
create_node_directory(node, copy_ok) ==
  IF node.simulation_id # ""
  THEN IF ~check_file_exists(node.simulation_id)
       THEN [created |-> FALSE, copied |-> "no",
             error |-> raise_copy_template_error(
                         raise_simulation_not_found_error(node.simulation_id))]
       ELSE IF copy_ok
            THEN [created |-> TRUE, copied |-> "ok", error |-> NoError]
            ELSE [created |-> FALSE, copied |-> "failed",
                  error |-> raise_copy_template_error(Exception("Exception", "copy failed"))]
  ELSE [created |-> TRUE, copied |-> "no", error |-> NoError]

get_graph_file_healed(f) ==
  IF f.kind = "json" THEN save_to_file(heal(Graph(f.data.nodes, f.data.edges))) ELSE f

\* graph.json after get_graph, which heals the Graph object it loaded and
\* calls no save_to_file
get_graph_file(f) == f

\* GraphProcessor.get_graph: every exception is printed and swallowed
GetGraph ==
  LET loaded == from_file(file)
      returned == IF loaded.raised # "none" THEN EmptyGraphData
                  ELSE to_graph_data(heal(loaded.graph))
  IN  /\ outcome' = Outcome("get_graph", [id |-> ""], NoError, "no", 0, {}, returned)
      /\ file' = get_graph_file(file)
      /\ UNCHANGED <<graphVars, dirs, runVars, writer, exec, store>>

\* GraphProcessor.insert_node; copy_ok is whether DataLoader.copy_directory
\* returns (it is reached only for a template that has its metadata file)
InsertNode ==
  LET loaded == from_file(file) IN
  \E node \in NodeInputs :
  \E copy_ok \in (IF node.simulation_id = "sim" THEN BOOLEAN ELSE {TRUE}) :
    LET g == add_node(loaded.graph, node)
        made == create_node_directory(node, copy_ok)
    IN  /\ UNCHANGED <<graphVars, runVars, writer, exec, store>>
        /\ IF loaded.raised # "none"
           THEN /\ outcome' = Outcome("insert_node", node, Exception(loaded.raised, ""),
                                      "no", 0, {}, EmptyGraphData)
                /\ UNCHANGED <<file, dirs>>
           ELSE /\ file' = save_to_file(g)
                /\ dirs' = IF made.created THEN dirs \cup {node.id} ELSE dirs
                /\ outcome' = Outcome("insert_node", node, made.error, made.copied,
                                      1, {}, EmptyGraphData)

\* GraphProcessor.update_node_position
UpdateNodePosition ==
  LET loaded == from_file(file) IN
  \E node \in NodeInputs :
        /\ UNCHANGED <<graphVars, dirs, runVars, writer, exec, store>>
        /\ IF loaded.raised # "none"
           THEN /\ outcome' = Outcome("update_node_position", node,
                                      Exception(loaded.raised, ""), "no", 0, {}, EmptyGraphData)
                /\ UNCHANGED file
           ELSE /\ outcome' = Outcome("update_node_position", node, NoError, "no", 1, {},
                                      EmptyGraphData)
                /\ file' = save_to_file(add_node(loaded.graph, node))

remove_node_directory_raises(rmdir_ok) ==
  IF rmdir_ok THEN NoError ELSE Exception("OSError", "could not remove")

\* try: DataLoader.remove_directory(node_path); except Exception: print(...)
remove_node_directory(rmdir_ok) == NoError

\* GraphProcessor.delete_node; removing the directory may fail, which is
\* printed and swallowed
DeleteNode ==
  LET loaded == from_file(file) IN
  \E node_id \in NodeIds :
  \E rmdir_ok \in (IF node_id \in dirs THEN BOOLEAN ELSE {TRUE}) :
    LET saved == save_to_file(remove_node(loaded.graph, node_id))
    IN  /\ UNCHANGED <<graphVars, runVars, writer, exec, store>>
        /\ IF loaded.raised # "none"
           THEN /\ outcome' = Outcome("delete_node", [id |-> node_id],
                                      Exception(loaded.raised, ""), "no", 0, {}, EmptyGraphData)
                /\ UNCHANGED <<file, dirs>>
           ELSE /\ outcome' = Outcome("delete_node", [id |-> node_id],
                                      remove_node_directory(rmdir_ok), "no", 1,
                                      Dropped(file, saved), EmptyGraphData)
                /\ file' = saved
                /\ dirs' = IF rmdir_ok THEN dirs \ {node_id} ELSE dirs

\* GraphProcessor.upsert_edge
UpsertEdge ==
  LET loaded == from_file(file) IN
  \E edge \in EdgeInputs :
    LET added == add_edge(loaded.graph, edge)
    IN  /\ UNCHANGED <<graphVars, dirs, runVars, writer, exec, store>>
        /\ IF loaded.raised # "none"
           THEN /\ outcome' = Outcome("upsert_edge", edge, Exception(loaded.raised, ""),
                                      "no", 0, {}, EmptyGraphData)
                /\ UNCHANGED file
           ELSE IF added.raised # "none"
                THEN /\ outcome' = Outcome("upsert_edge", edge, Exception(added.raised, ""),
                                           "no", 0, {}, EmptyGraphData)
                     /\ UNCHANGED file
                ELSE /\ outcome' = Outcome("upsert_edge", edge, NoError, "no", 1, {},
                                           EmptyGraphData)
                     /\ file' = save_to_file(added.graph)

\* GraphProcessor.delete_edge
DeleteEdge ==
  LET loaded == from_file(file) IN
  \E edge_id \in EdgeIds :
    LET saved == save_to_file(remove_edge(loaded.graph, edge_id))
    IN  /\ UNCHANGED <<graphVars, dirs, runVars, writer, exec, store>>
        /\ IF loaded.raised # "none"
           THEN /\ outcome' = Outcome("delete_edge", [id |-> edge_id],
                                      Exception(loaded.raised, ""), "no", 0, {}, EmptyGraphData)
                /\ UNCHANGED file
           ELSE /\ outcome' = Outcome("delete_edge", [id |-> edge_id], NoError, "no", 1,
                                      Dropped(file, saved), EmptyGraphData)
                /\ file' = saved

ensure_graph_file_exists_overwrites(f) == save_to_file(EmptyGraph)

\* if not graph_file_path.exists(): Graph().save_to_file(graph_file_path)
ensure_graph_file_exists(f) ==
  IF f.kind = "absent" THEN save_to_file(EmptyGraph) ELSE f

\* GraphProcessor._ensure_graph_file_exists
EnsureGraphFileExists ==
  /\ file' = ensure_graph_file_exists(file)
  /\ outcome' = Outcome("ensure_graph_file_exists", [id |-> ""], NoError, "no",
                        IF file.kind = "absent" THEN 1 ELSE 0, {}, EmptyGraphData)
  /\ UNCHANGED <<graphVars, dirs, runVars, writer, exec, store>>

Next ==
  \/ GetGraph \/ InsertNode \/ UpdateNodePosition \/ DeleteNode \/ UpsertEdge \/ DeleteEdge
  \/ EnsureGraphFileExists

Spec == Init /\ [][Next]_vars

\* the graph that graph.json holds
FileGraph == Graph(file.data.nodes, file.data.edges)

\* the (source, target) pairs and the node ids that graph.json lists
FileEdges == {<<file.data.edges[i].source, file.data.edges[i].target>> : i \in DOMAIN file.data.edges}

FileNodes == {file.data.nodes[i].id : i \in DOMAIN file.data.nodes}

\* the ids of the edges of graph.json that have a missing endpoint
OrphanEdges(f) ==
  LET g == Graph(f.data.nodes, f.data.edges)
  IN  {e \in DOMAIN g.edges : ~validate_edge(g, g.edges[e])}

\* a GraphProcessor mutation has just returned normally
Mutated ==
  /\ outcome.op \in {"insert_node", "update_node_position", "delete_node", "upsert_edge",
                     "delete_edge"}
  /\ outcome.raised = "none"

\* C2: every GraphProcessor mutation heals on load. Once insert_node,
\* update_node_position, delete_node, upsert_edge or delete_edge has returned,
\* the graph.json it saved holds no orphan edge (an edge whose source or target
\* is not a node), whatever the file held before.
C2_MutationHeals == Mutated => OrphanEdges(file) = {}

\* C3: node workspace correspondence. After any sequence of GraphProcessor
\* operations every node persisted in graph.json has its workspace directory
\* <project>/<node.id>/.
C3_NodeHasWorkspace ==
  file.kind = "json" => DOMAIN FileGraph.nodes \subseteq dirs

\* the GraphProcessor operations that write graph.json
Mutations ==
  {"insert_node", "update_node_position", "delete_node", "upsert_edge", "delete_edge"}

\* C11: insert_node of a node whose simulation_id names a template without a
\* metadata file, on a project whose graph.json loads: the call raises, never
\* calls copy_directory, creates no node workspace, and the graph.json it
\* saved holds the new node.
C11_MissingTemplate ==
  [][(/\ outcome'.op = "insert_node"
      /\ outcome'.arg.simulation_id # ""
      /\ ~check_file_exists(outcome'.arg.simulation_id)
      /\ file.kind \in {"absent", "json"})
     => (/\ outcome'.raised # "none"
         /\ outcome'.copied = "no"
         /\ dirs' = dirs
         /\ outcome'.arg.id \in DOMAIN FileGraph'.nodes
         /\ FileGraph'.nodes[outcome'.arg.id] = outcome'.arg)]_vars

C11_Witness ==
  /\ outcome.op = "insert_node"
  /\ outcome.arg.simulation_id = "nope"
  /\ outcome.raised = "ValueError"
  /\ outcome.copied = "no"
  /\ outcome.arg.id \notin dirs
  /\ outcome.arg.id \in DOMAIN FileGraph.nodes

C13_MissingTemplateMessage ==
  (/\ outcome.op = "insert_node"
   /\ outcome.saves = 1
   /\ outcome.arg.simulation_id # ""
   /\ ~check_file_exists(outcome.arg.simulation_id))
    => (/\ outcome.raised = "ValueError"
        /\ outcome.message = SimulationNotFoundMessage(outcome.arg.simulation_id))

\* C14: upsert_edge of an edge whose source or target is not a node raises
\* InvalidEdgeError and leaves the Graph in memory and graph.json as they
\* were; when both endpoints are nodes it returns and graph.json holds the
\* edge under its id.
C14_InvalidEdgeRejected ==
  [][(outcome'.op = "upsert_edge" /\ file.kind \in {"absent", "json"})
     => LET g == Graph(file.data.nodes, file.data.edges)
            edge == outcome'.arg
        IN  IF edge.source \notin DOMAIN g.nodes \/ edge.target \notin DOMAIN g.nodes
            THEN /\ outcome'.raised = "InvalidEdgeError"
                 /\ add_edge(g, edge).graph = g
                 /\ file' = file
            ELSE /\ outcome'.raised = "none"
                 /\ edge.id \in DOMAIN FileGraph'.edges
                 /\ FileGraph'.edges[edge.id] = edge]_vars

C14_Witness ==
  /\ outcome.op = "upsert_edge"
  /\ outcome.raised = "InvalidEdgeError"
  /\ file.kind = "json"
  /\ outcome.arg.source \in DOMAIN FileGraph.nodes
  /\ outcome.arg.target \notin DOMAIN FileGraph.nodes
  /\ DOMAIN FileGraph.edges # {}
  /\ outcome.arg.id \notin DOMAIN FileGraph.edges

\* C15: after remove_node(id) on any graph, one loaded from a file that holds
\* orphan edges included, and for any id, a node or not, no edge of the graph
\* has id as its source or its target (delete_node saves that graph).
C15_NoEdgeOfRemoved ==
  (outcome.op = "delete_node" /\ outcome.raised = "none")
    => \A e \in DOMAIN FileGraph.edges :
         /\ FileGraph.edges[e].source # outcome.arg.id
         /\ FileGraph.edges[e].target # outcome.arg.id

\* C16: delete_node(id) on a valid persisted graph removes node id and
\* exactly the edges with id as source or target; every other node and edge
\* of graph.json is as it was.
C16_DeleteNodeFrame ==
  [][(outcome'.op = "delete_node" /\ file.kind = "json" /\ validate(FileGraph))
     => LET id == outcome'.arg.id
            g == Graph(file.data.nodes, file.data.edges)
            h == Graph(file'.data.nodes, file'.data.edges)
        IN  /\ outcome'.raised = "none"
            /\ file'.kind = "json"
            /\ DOMAIN h.nodes = DOMAIN g.nodes \ {id}
            /\ \A n \in DOMAIN h.nodes : h.nodes[n] = g.nodes[n]
            /\ DOMAIN h.edges =
                 {e \in DOMAIN g.edges : g.edges[e].source # id /\ g.edges[e].target # id}
            /\ \A e \in DOMAIN h.edges : h.edges[e] = g.edges[e]
            /\ Len(file'.data.nodes) = Cardinality(DOMAIN h.nodes)
            /\ Len(file'.data.edges) = Cardinality(DOMAIN h.edges)]_vars

\* delete_node("B") on A -> B -> C
C16_Witness ==
  /\ outcome.op = "delete_node"
  /\ outcome.arg.id = "B"
  /\ outcome.dropped = {"e1", "e2"}
  /\ DOMAIN FileGraph.nodes = {"A", "C"}
  /\ DOMAIN FileGraph.edges = {}

\* C17: whatever graph.json holds, the GraphData get_graph returns has no
\* edge whose source or target is missing from its nodes, and when the file
\* is a document it has every node of the file and every edge of the file
\* whose endpoints are both nodes.
C17_GetGraphHealed ==
  outcome.op = "get_graph"
    => LET r == outcome.returned
           g == Graph(r.nodes, r.edges)
       IN  /\ validate(g)
           /\ Len(r.nodes) = Cardinality(DOMAIN g.nodes)
           /\ Len(r.edges) = Cardinality(DOMAIN g.edges)
           /\ file.kind = "json"
                => /\ g.nodes = FileGraph.nodes
                   /\ DOMAIN g.edges = DOMAIN FileGraph.edges \ OrphanEdges(file)
                   /\ \A e \in DOMAIN g.edges : g.edges[e] = FileGraph.edges[e]

C17_Witness ==
  /\ outcome.op = "get_graph"
  /\ OrphanEdges(file) # {}
  /\ Len(outcome.returned.edges) = 1
  /\ Len(outcome.returned.nodes) = 2

\* C18: get_graph never raises, and returns the empty GraphData when
\* graph.json cannot be read or parsed; every mutation raises that failure to
\* its caller (and writes nothing).
C18_LoadErrors ==
  [][/\ outcome'.op = "get_graph" => outcome'.raised = "none"
     /\ file.kind \notin {"absent", "json"}
          => /\ outcome'.op = "get_graph" => outcome'.returned = EmptyGraphData
             /\ outcome'.op \in Mutations
                  => /\ outcome'.raised = "JSONDecodeError"
                     /\ outcome'.saves = 0
                     /\ file' = file
                     /\ dirs' = dirs]_vars

C18_Witness ==
  /\ file.kind = "partial"
  /\ outcome.op = "get_graph"
  /\ outcome.raised = "none"
  /\ outcome.returned = EmptyGraphData

\* C24: insert_node is idempotent. A second insert_node with the identical
\* node, made right after the first and meeting the same answer from the
\* template copy, leaves graph.json and the node directories as the first
\* call left them, and the graph.json it saved holds exactly one node with
\* the node's id.
C24_InsertNodeIdempotent ==
  [][(/\ outcome.op = "insert_node"
      /\ outcome'.op = "insert_node"
      /\ outcome'.arg = outcome.arg
      /\ outcome'.copied = outcome.copied
      /\ file.kind = "json")
     => (/\ file' = file
         /\ dirs' = dirs
         /\ Cardinality({i \in DOMAIN file'.data.nodes :
                           file'.data.nodes[i].id = outcome'.arg.id}) = 1)]_vars

\* insert_node of a node without a template has returned twice in a row
C24_Witness ==
  /\ outcome.op = "insert_node"
  /\ outcome.repeated
  /\ outcome.raised = "none"
  /\ outcome.arg.id = "A"
  /\ "A" \in dirs
  /\ Len(file.data.nodes) = 2
  /\ Cardinality({i \in DOMAIN file.data.nodes : file.data.nodes[i].id = "A"}) = 1

\* C25: ensure_graph_exists creates an empty graph.json only when there is
\* none and never alters one that exists: no node and no edge is discarded,
\* and a second call right after the first changes nothing.
C25_EnsureGraphExists ==
  [][outcome'.op = "ensure_graph_file_exists"
     => (/\ file.kind = "absent" => file' = JsonFile(EmptyGraphData)
         /\ file.kind # "absent" => file' = file
         /\ outcome.op = "ensure_graph_file_exists" => file' = file
         /\ dirs' = dirs)]_vars

\* the call has left alone a graph.json that holds a node and an edge
C25_Witness ==
  /\ outcome.op = "ensure_graph_file_exists"
  /\ outcome.saves = 0
  /\ file.kind = "json"
  /\ file.data.nodes # <<>>
  /\ file.data.edges # <<>>

\* C26: delete_node saves the graph before it touches the workspace: when
\* the removal of the node's directory fails, the call still returns
\* normally, and graph.json no longer holds the node or an edge that has it
\* as source or target.
C26_DeleteNodeSurvivesRmdir ==
  [][(/\ outcome'.op = "delete_node"
      /\ file.kind = "json"
      /\ outcome'.arg.id \in FileNodes
      /\ outcome'.arg.id \in dirs
      /\ outcome'.arg.id \in dirs')
     => (/\ outcome'.raised = "none"
         /\ outcome'.saves = 1
         /\ file'.kind = "json"
         /\ outcome'.arg.id \notin FileNodes'
         /\ \A i \in DOMAIN file'.data.edges :
              /\ file'.data.edges[i].source # outcome'.arg.id
              /\ file'.data.edges[i].target # outcome'.arg.id)]_vars

\* delete_node("B") has dropped B and its edge, and B's directory is still there
C26_Witness ==
  /\ outcome.op = "delete_node"
  /\ outcome.raised = "none"
  /\ outcome.arg.id = "B"
  /\ outcome.dropped # {}
  /\ "B" \in dirs
  /\ "B" \notin FileNodes

\* C27: the round trip load -> heal -> save -> load gives a graph equal to
\* the healed graph (the same nodes and the same edges, keyed by id), one
\* for which validate() is true; get_graph returns that graph's data.
C27_RoundTrip ==
  (outcome.op = "get_graph" /\ file.kind = "json")
    => LET healed == heal(Graph(file.data.nodes, file.data.edges))
           reloaded == from_file(save_to_file(healed))
       IN  /\ reloaded.raised = "none"
           /\ reloaded.graph.nodes = healed.nodes
           /\ reloaded.graph.edges = healed.edges
           /\ validate(reloaded.graph)
           /\ to_graph_data(reloaded.graph) = outcome.returned
           /\ DOMAIN healed.nodes = FileNodes
           /\ DOMAIN healed.edges = DOMAIN FileGraph.edges \ OrphanEdges(file)

\* get_graph on a graph.json with an edge that is kept and one that is healed away
C27_Witness ==
  /\ outcome.op = "get_graph"
  /\ file.kind = "json"
  /\ OrphanEdges(file) # {}
  /\ outcome.returned.edges # <<>>
  /\ from_file(JsonFile(outcome.returned)).graph # FileGraph
  /\ validate(from_file(JsonFile(outcome.returned)).graph)

\* C30: delete_node(id) for an id that is not a node of the project's graph
\* removes no directory: every directory of the project is left as it was.
C30_DeleteUnknownKeepsDirs ==
  [][(/\ outcome'.op = "delete_node"
      /\ file.kind \in {"absent", "json"}
      /\ outcome'.arg.id \notin FileNodes)
     => dirs' = dirs]_vars

\* C31: update_node_position(node) never adds a node to the graph: when
\* node.id is not a node of graph.json, the set of node ids of graph.json is
\* the same after the call.
C31_UpdateAddsNoNode ==
  [][(/\ outcome'.op = "update_node_position"
      /\ file.kind \in {"absent", "json"}
      /\ outcome'.arg.id \notin FileNodes)
     => FileNodes' = FileNodes]_vars

\* C35: get_graph is read-only: it never writes graph.json, so the orphan
\* edges it drops from its result stay in the file until another operation
\* rewrites it.
C35_GetGraphReadOnly ==
  [][outcome'.op = "get_graph"
     => (/\ file' = file
         /\ dirs' = dirs
         /\ outcome'.saves = 0
         /\ OrphanEdges(file') = OrphanEdges(file))]_vars

\* get_graph has returned fewer edges than graph.json still holds
C35_Witness ==
  /\ outcome.op = "get_graph"
  /\ file.kind = "json"
  /\ Len(file.data.edges) = 2
  /\ Cardinality(OrphanEdges(file)) = 2
  /\ outcome.returned.edges = <<>>

\* C36: heal() removes exactly the edges that have a missing endpoint: all
\* nodes, and all edges whose source and target both exist, are unchanged,
\* validate() is true afterwards, and a second heal() changes nothing.
C36_HealExact ==
  (outcome.op = "get_graph" /\ file.kind = "json")
    => LET g == Graph(file.data.nodes, file.data.edges)
           h == heal(g)
       IN  /\ outcome.returned = to_graph_data(h)
           /\ h.nodes = g.nodes
           /\ DOMAIN h.edges =
                {e \in DOMAIN g.edges : /\ g.edges[e].source \in DOMAIN g.nodes
                                        /\ g.edges[e].target \in DOMAIN g.nodes}
           /\ \A e \in DOMAIN h.edges : h.edges[e] = g.edges[e]
           /\ validate(h)
           /\ heal(h) = h

\* get_graph has healed a graph of one orphan edge and one edge between nodes
C36_Witness ==
  /\ outcome.op = "get_graph"
  /\ file.kind = "json"
  /\ Len(file.data.edges) = 2
  /\ Cardinality(OrphanEdges(file)) = 1
  /\ heal(FileGraph) # FileGraph
  /\ Len(outcome.returned.edges) = 1

(***************************************************************************)
(* backends/local/runs.py: RunsHandler.run_flow, its planning part.        *)
(***************************************************************************)
\* DataLoader.load_for_project(project, GRAPH_SUFFIX): the parsed document
load_for_project(f) == f.data

BuildDiGraph_nodes_only(data) ==
  [nodes |-> {data.nodes[i].id : i \in DOMAIN data.nodes}, edges |-> {}]

BuildDiGraph_reversed(data) ==
  [nodes |-> {data.nodes[i].id : i \in DOMAIN data.nodes}
             \cup {data.edges[i].source : i \in DOMAIN data.edges}
             \cup {data.edges[i].target : i \in DOMAIN data.edges},
   edges |-> {<<data.edges[i].target, data.edges[i].source>> : i \in DOMAIN data.edges}]

\* nx.DiGraph(): add_node for every node, add_edge(source, target) for every
\* edge; networkx adds an endpoint that is not yet a node
BuildDiGraph(data) ==
  [nodes |-> {data.nodes[i].id : i \in DOMAIN data.nodes}
             \cup {data.edges[i].source : i \in DOMAIN data.edges}
             \cup {data.edges[i].target : i \in DOMAIN data.edges},
   edges |-> {<<data.edges[i].source, data.edges[i].target>> : i \in DOMAIN data.edges}]

\* the upstream nodes of n
Predecessors(G, n) == {u \in G.nodes : <<u, n>> \in G.edges}

\* a set of ids as a list in id order
SortedIds(S) == SelectSeq(IdOrder, LAMBDA k : k \in S)

\* layer after layer from the roots: the nodes all of whose predecessors are
\* placed, in id order
RECURSIVE BfsLayers(_, _, _)
BfsLayers(G, placed, order) ==
  LET ready == {n \in G.nodes \ placed : Predecessors(G, n) \subseteq placed}
  IN  IF ready = {} THEN [order |-> order, placed |-> placed]
      ELSE BfsLayers(G, placed \cup ready, order \o SortedIds(ready))

\* ProcessGraph.print_bfs_nodes: (nodes_to_run, prev_nodes), or GraphHasCycle
print_bfs_nodes(G) ==
  LET r == BfsLayers(G, {}, <<>>)
  IN  IF r.placed # G.nodes
      THEN [nodes_to_run |-> <<>>, prev_nodes |-> EmptyDict, raised |-> "GraphHasCycle"]
      ELSE [nodes_to_run |-> r.order,
            prev_nodes |-> [n \in G.nodes |-> Predecessors(G, n)],
            raised |-> "none"]

RunFlowPlan_unchecked(f) ==
  LET p == print_bfs_nodes(BuildDiGraph(load_for_project(f)))
  IN  [planned |-> TRUE, nodes_to_run |-> p.nodes_to_run, prev_nodes |-> p.prev_nodes,
       raised |-> p.raised]

\* run_flow up to its check of nodes_to_run
RunFlowPlan(f) ==
  LET p == print_bfs_nodes(BuildDiGraph(load_for_project(f)))
  IN  [planned |-> TRUE,
       nodes_to_run |-> p.nodes_to_run,
       prev_nodes |-> p.prev_nodes,
       raised |-> IF p.raised # "none" THEN p.raised
                  ELSE IF p.nodes_to_run = <<>> THEN "ValueError"
                  ELSE "none"]

(***************************************************************************)
(* SpecPlan: run planning applied to every graph.json of up to             *)
(* MaxFileEdges edges over the node ids, orphan edges, duplicate edges,    *)
(* self-loops and cycles included.                                         *)
(***************************************************************************)
NodePairs == NodeIds \X NodeIds

EdgeListsUpTo(max) ==
  UNION {{[i \in 1..k |-> [id |-> EdgeIdAt[i], source |-> ps[i][1], target |-> ps[i][2]]] :
            ps \in [1..k -> NodePairs]} : k \in 0..max}

EdgeLists == EdgeListsUpTo(MaxFileEdges)

NodeLists ==
  {[i \in 1..Len(SortedIds(S)) |->
      [id |-> SortedIds(S)[i], position |-> 0,
       simulation_id |-> SimulationOf[SortedIds(S)[i]]]] : S \in SUBSET NodeIds}

PlanFiles == {JsonFile([nodes |-> n, edges |-> e]) : n \in NodeLists, e \in EdgeLists}

InitPlan ==
  /\ graph = EmptyGraph
  /\ raised = "none"
  /\ file \in PlanFiles
  /\ dirs = {}
  /\ outcome = NoOutcome
  /\ IdleRun
  /\ writer = NoWriter
  /\ exec = NoExec
  /\ store = NoStore

PlanFlow ==
  /\ ~plan.planned
  /\ plan' = RunFlowPlan(file)
  /\ UNCHANGED <<graphVars, file, procVars, runDirs, runs, calls, threads, writer, exec, store>>

NextPlan == PlanFlow

SpecPlan == InitPlan /\ [][NextPlan]_vars

\* the edges of graph.json as pairs, and what they reach
RECURSIVE ReachFrom(_, _)
ReachFrom(E, S) ==
  LET more == S \cup {e[2] : e \in {x \in E : x[1] \in S}}
  IN  IF more = S THEN S ELSE ReachFrom(E, more)

Acyclic(E) == \A e \in E : e[1] \notin ReachFrom(E, {e[2]})

Roots(N, E) == {n \in N : ~\E e \in E : e[2] = n}

Occurrences(order, n) == Cardinality({i \in DOMAIN order : order[i] = n})

\* C6: for every acyclic graph.json the execution order run_flow computes is a
\* topological sort (for every edge u -> v, u is placed before v) and holds
\* every node that has a path from a root (a node of in-degree 0), each once.
C6_TopologicalOrder ==
  (plan.planned /\ Acyclic(FileEdges)) =>
     /\ plan.raised # "GraphHasCycle"
     /\ \A e \in FileEdges :
          \E i, j \in DOMAIN plan.nodes_to_run :
            i < j /\ plan.nodes_to_run[i] = e[1] /\ plan.nodes_to_run[j] = e[2]
     /\ \A n \in ReachFrom(FileEdges, Roots(FileNodes, FileEdges)) :
          Occurrences(plan.nodes_to_run, n) = 1
     /\ \A i, j \in DOMAIN plan.nodes_to_run :
          i # j => plan.nodes_to_run[i] # plan.nodes_to_run[j]

\* the triangle A -> C, A -> B, B -> C, where C is two layers below the root
\* although an edge leads to it from the root
C6_Witness ==
  /\ plan.planned
  /\ FileEdges = {<<"A", "C">>, <<"A", "B">>, <<"B", "C">>}
  /\ plan.nodes_to_run = <<"A", "B", "C">>

\* C29: run_flow schedules only ids that are entries of the nodes list of
\* graph.json: an id that is only the source or the target of an (orphan)
\* edge, or only the name of a node directory, is never placed in the
\* execution order.
C29_OnlyListedNodesRun ==
  plan.planned =>
    \A i \in DOMAIN plan.nodes_to_run : plan.nodes_to_run[i] \in FileNodes

(***************************************************************************)
(* core/modules/run/node/methods/local/Execute.py and                      *)
(* core/modules/logging/process_executor.py: the result of one node.       *)
(***************************************************************************)
\* ProcessExecutor.execute_with_logging: the message for an exit code
execute_with_logging_always_success(return_code) == "success"

execute_with_logging(return_code) ==
  IF return_code = 0 THEN "success" ELSE "failure: failed with return code"

execute_node_ignores_pull(pull_ok, container_result) == container_result

\* LocalExecutionManager._execute_node: container_result is what
\* run_container returns ("running" while the container has not exited)
execute_node(pull_ok, container_result) ==
  IF ~pull_ok THEN "failure: docker pull failed" ELSE container_result

(***************************************************************************)
(* ProjectRunner: prepare_run_environment and execute_flow.                *)
(***************************************************************************)
Max(S) == CHOOSE x \in S : \A y \in S : y <= x

NextRunNumber_count(existing) == Cardinality(existing) + 1

\* 1 + max(existing run numbers in runs_path, or 0)
NextRunNumber(existing) == 1 + Max(existing \cup {0})

\* the run as prepare_run_environment leaves it: metadata status "running",
\* execute_flow about to start the first node
NewRun(p) ==
  [nodes_to_run |-> p.nodes_to_run, idx |-> 1, phase |-> "next", status |-> "running",
   pull_ok |-> TRUE, started |-> {}, succeeded |-> {}, failed |-> {}]

\* execute_flow on the result of the node at idx: on success the next node
\* proceeds, on failure the run is marked failed and the later nodes skipped
FlowResult(run, result) ==
  LET node == run.nodes_to_run[run.idx]
  IN  IF result = "success"
      THEN [run EXCEPT !.succeeded = @ \cup {node},
                       !.idx = @ + 1,
                       !.phase = IF run.idx + 1 > Len(run.nodes_to_run) THEN "done" ELSE "next"]
      ELSE [run EXCEPT !.status = "failed", !.phase = "done"]

(***************************************************************************)
(* SpecRun: run_flow called up to MaxCalls times, one call after the       *)
(* other, each inside a running event loop ("loop") or outside one         *)
(* ("sync"), on a project whose graph.json does not change.                *)
(***************************************************************************)
RunFiles == {JsonFile([nodes |-> n, edges |-> e]) : n \in NodeLists, e \in EdgeListsUpTo(MaxRunEdges)}

InitRun ==
  /\ graph = EmptyGraph
  /\ raised = "none"
  /\ file \in RunFiles
  /\ dirs = FileNodes
  /\ outcome = NoOutcome
  /\ plan = NoPlan
  /\ runDirs \in {{}} \cup {{n} : n \in 1..MaxPreRun}
  /\ runs = EmptyDict
  /\ calls = <<>>
  /\ threads = EmptyDict
  /\ writer = NoWriter
  /\ exec = NoExec
  /\ store = NoStore

\* RunsHandler.run_flow up to its return inside an event loop, or up to
\* asyncio.run(...) outside one
RunFlow ==
  \E context \in {"loop", "sync"} :
    LET p == RunFlowPlan(file)
        run_number == NextRunNumber(runDirs)
    IN  /\ Len(calls) < MaxCalls
        /\ IF calls = <<>> THEN TRUE ELSE calls[Len(calls)].status # "blocked"
        /\ IF p.raised # "none"
           THEN /\ calls' = Append(calls, [context |-> context, status |-> "raised",
                                           flow_status |-> p.raised, run_number |-> 0])
                /\ UNCHANGED <<runDirs, runs>>
           ELSE /\ runDirs' = runDirs \cup {run_number}
                /\ runs' = [n \in (DOMAIN runs) \cup {run_number} |->
                              IF n = run_number THEN NewRun(p) ELSE runs[n]]
                /\ calls' = Append(calls,
                      [context |-> context,
                       status |-> IF context = "loop" THEN "returned" ELSE "blocked",
                       flow_status |-> "running", run_number |-> run_number])
        /\ UNCHANGED <<graphVars, file, procVars, plan, threads, writer, exec, store>>

\* asyncio.run(runner.execute_flow(...)) has ended: run_flow returns
RunFlowReturn ==
  /\ calls # <<>>
  /\ calls[Len(calls)].status = "blocked"
  /\ runs[calls[Len(calls)].run_number].phase = "done"
  /\ calls' = [calls EXCEPT ![Len(calls)].status = "returned"]
  /\ UNCHANGED <<graphVars, file, procVars, plan, runDirs, runs, threads, writer, exec, store>>

\* execute_flow starts the node at idx: _execute_node pulls the image
NodeStart ==
  \E n \in DOMAIN runs, pulled \in BOOLEAN :
    LET run == runs[n]
        node == run.nodes_to_run[run.idx]
        begun == [run EXCEPT !.started = @ \cup {node}, !.pull_ok = pulled,
                             !.failed = IF pulled THEN @ ELSE @ \cup {node}]
        result == execute_node(pulled, "running")
    IN  /\ run.phase = "next"
        /\ runs' = [runs EXCEPT ![n] =
                      IF result = "running" THEN [begun EXCEPT !.phase = "container"]
                      ELSE FlowResult(begun, result)]
        /\ UNCHANGED <<graphVars, file, procVars, plan, runDirs, calls, threads, writer, exec, store>>

\* the container of the node at idx exits
NodeExit ==
  \E n \in DOMAIN runs, return_code \in {0, 1} :
    LET run == runs[n]
        node == run.nodes_to_run[run.idx]
        exited == [run EXCEPT !.failed = IF return_code = 0 THEN @ ELSE @ \cup {node}]
        result == execute_node(run.pull_ok, execute_with_logging(return_code))
    IN  /\ run.phase = "container"
        /\ runs' = [runs EXCEPT ![n] = FlowResult(exited, result)]
        /\ UNCHANGED <<graphVars, file, procVars, plan, runDirs, calls, threads, writer, exec, store>>

NextRun == RunFlow \/ RunFlowReturn \/ NodeStart \/ NodeExit

SpecRun == InitRun /\ [][NextRun]_vars

\* C4: within a run, whenever a node has started executing, every source of
\* an edge into it has completed successfully in that run.
C4_PredecessorsFirst ==
  \A n \in DOMAIN runs :
    \A e \in FileEdges :
      e[2] \in runs[n].started => e[1] \in runs[n].succeeded

\* a node with two predecessors has started
C4_Witness ==
  /\ FileEdges = {<<"A", "C">>, <<"B", "C">>}
  /\ \E n \in DOMAIN runs : "C" \in runs[n].started

\* the position of a node in an execution order (0 when it is not in it)
PositionIn(order, node) ==
  IF \E i \in DOMAIN order : order[i] = node
  THEN CHOOSE i \in DOMAIN order : order[i] = node
  ELSE 0

\* C5: once a node of a run has failed (its image pull failed or its
\* container exited nonzero), no node later in the execution order is ever
\* started, and the run does not stay "running": when execute_flow has ended
\* the run's status is "failed".
C5_FailureStopsRun ==
  \A n \in DOMAIN runs :
    \A f \in runs[n].failed :
      /\ \A v \in runs[n].started :
           PositionIn(runs[n].nodes_to_run, v) <= PositionIn(runs[n].nodes_to_run, f)
      /\ runs[n].phase = "done" => runs[n].status = "failed"

\* the first of three nodes failed and execute_flow has ended
C5_Witness ==
  \E n \in DOMAIN runs :
    /\ Len(runs[n].nodes_to_run) = 3
    /\ runs[n].failed = {runs[n].nodes_to_run[1]}
    /\ runs[n].phase = "done"
    /\ runs[n].started = {runs[n].nodes_to_run[1]}

\* the calls that were given a run number
Allocated(cs) == {i \in DOMAIN cs : cs[i].status # "raised"}

\* C7: the run numbers of successive run_flow calls on a project strictly
\* increase, start at 1 when no run exists, never equal the number of a
\* run_<n> directory that already exists, and each call creates its own run
\* directory.
C7_RunNumbersIncrease ==
  [][(Len(calls') > Len(calls) /\ calls'[Len(calls')].status # "raised") =>
       LET run_number == calls'[Len(calls')].run_number
       IN  /\ run_number \notin runDirs
           /\ run_number \in runDirs'
           /\ \A i \in Allocated(calls) : calls[i].run_number < run_number
           /\ runDirs = {} => run_number = 1]_vars

\* run_2 existed; two calls were given 3 and 4, and both have returned
C7_Witness ==
  /\ Len(calls) = 2
  /\ calls[1].status = "returned" /\ calls[1].run_number = 3
  /\ calls[2].status = "returned" /\ calls[2].run_number = 4
  /\ runDirs = {2, 3, 4}

\* C19: a run_flow call on a project whose graph gives an empty execution
\* order (the planner returns no node, as for {nodes: [], edges: []}) raises
\* the "No nodes to run" ValueError before the run environment is prepared:
\* it is given no run number and no run_<n> directory is created.
C19_EmptyOrderRaises ==
  [][(/\ Len(calls') > Len(calls)
      /\ print_bfs_nodes(BuildDiGraph(load_for_project(file))).raised = "none"
      /\ print_bfs_nodes(BuildDiGraph(load_for_project(file))).nodes_to_run = <<>>)
     => (/\ calls'[Len(calls')].status = "raised"
         /\ calls'[Len(calls')].flow_status = "ValueError"
         /\ calls'[Len(calls')].run_number = 0
         /\ runDirs' = runDirs
         /\ runs' = runs)]_vars

\* run_2 exists; two calls on the empty graph both raised and created nothing
C19_Witness ==
  /\ file.data = EmptyGraphData
  /\ Len(calls) = 2
  /\ calls[1].status = "raised" /\ calls[1].flow_status = "ValueError"
  /\ calls[2].status = "raised" /\ calls[2].flow_status = "ValueError"
  /\ runDirs = {2}
  /\ runs = EmptyDict

\* C9: run_flow is non-blocking in every calling context: at the moment it
\* returns {flow_status: "running", run_number} the execution of that run's
\* nodes has not completed.
C9_ReturnsBeforeCompletion ==
  [][\A i \in DOMAIN calls' :
       (/\ calls'[i].status = "returned"
        /\ IF i \in DOMAIN calls THEN calls[i].status # "returned" ELSE TRUE)
       => runs'[calls'[i].run_number].phase # "done"]_vars

(***************************************************************************)
(* SpecStatus: run_flow and the execution of its runs as in SpecRun, on    *)
(* projects of up to two nodes and no edge, with get_run_status called at  *)
(* any moment for any run number.                                          *)
(***************************************************************************)
StatusRunNumbers == 1..(MaxPreRun + MaxCalls)

get_run_status_reads(existing, states, run_number) ==
  [run_number |-> run_number,
   status |-> IF run_number \in DOMAIN states THEN states[run_number].status
              ELSE "unknown"]

\* RunsHandler.get_run_status: existing are the run directories and states
\* the state of each run
get_run_status(existing, states, run_number) ==
  [run_number |-> run_number, status |-> "unknown"]

StatusFiles == {JsonFile([nodes |-> n, edges |-> <<>>]) : n \in {l \in NodeLists : Len(l) <= 2}}

InitStatus ==
  /\ graph = EmptyGraph
  /\ raised = "none"
  /\ file \in StatusFiles
  /\ dirs = FileNodes
  /\ outcome = NoOutcome
  /\ plan = NoPlan
  /\ runDirs \in {{}} \cup {{n} : n \in 1..MaxPreRun}
  /\ runs = EmptyDict
  /\ calls = <<>>
  /\ threads = EmptyDict
  /\ writer = NoWriter
  /\ exec = NoExec
  /\ store = NoStore

GetRunStatus ==
  \E run_number \in StatusRunNumbers :
    /\ outcome' = Outcome("get_run_status", [id |-> run_number], NoError, "no", 0, {},
                          get_run_status(runDirs, runs, run_number))
    /\ UNCHANGED <<graphVars, file, dirs, runVars, writer, exec, store>>

NextStatus == RunFlow \/ RunFlowReturn \/ NodeStart \/ NodeExit \/ GetRunStatus

SpecStatus == InitStatus /\ [][NextStatus]_vars

\* C38: get_run_status(project, n) returns {run_number: n, status: "unknown"}
\* for every n, whether or not run n exists and whether the run is running,
\* has succeeded or has failed; it reads no run state and changes none.
C38_StatusUnknown ==
  [][(outcome' # outcome /\ outcome'.op = "get_run_status")
     => (/\ outcome'.returned = [run_number |-> outcome'.arg.id, status |-> "unknown"]
         /\ outcome'.raised = "none"
         /\ runs' = runs
         /\ runDirs' = runDirs)]_vars

\* the status of a run that has failed was asked for
C38_Witness ==
  /\ outcome.op = "get_run_status"
  /\ outcome.arg.id \in DOMAIN runs
  /\ runs[outcome.arg.id].status = "failed"
  /\ outcome.returned.status = "unknown"

(***************************************************************************)
(* SpecCycle: a project of up to two nodes and no edge, on which edges are  *)
(* upserted through GraphProcessor.upsert_edge and run_flow is called,     *)
(* so that every edge of graph.json was stored by upsert_edge.             *)
(***************************************************************************)
CycleProjects ==
  {JsonFile([nodes |-> n, edges |-> <<>>]) : n \in {m \in NodeLists : Len(m) <= 2}}

InitCycle ==
  /\ graph = EmptyGraph
  /\ raised = "none"
  /\ file \in CycleProjects
  /\ dirs = FileNodes
  /\ outcome = NoOutcome
  /\ IdleRun
  /\ writer = NoWriter
  /\ exec = NoExec
  /\ store = NoStore

NextCycle == UpsertEdge \/ RunFlow \/ RunFlowReturn \/ NodeStart \/ NodeExit

SpecCycle == InitCycle /\ [][NextCycle]_vars

\* C20: upsert_edge stores edges that close a cycle (a self-loop included),
\* and a run_flow call on a graph.json whose edges hold a cycle fails in
\* planning with GraphHasCycle: no run is created for it, so no node executes
\* and no node of the cycle is scheduled.
C20_CycleAbortsRun ==
  [][(Len(calls') > Len(calls) /\ ~Acyclic(FileEdges))
     => (/\ calls'[Len(calls')].status = "raised"
         /\ calls'[Len(calls')].flow_status = "GraphHasCycle"
         /\ runDirs' = runDirs
         /\ runs' = runs)]_vars

\* upsert_edge closed the cycle A -> B -> A, and the run_flow call that
\* followed raised and started nothing
C20_Witness ==
  /\ FileNodes = {"A", "B"}
  /\ FileEdges = {<<"A", "B">>, <<"B", "A">>}
  /\ outcome.op = "upsert_edge"
  /\ outcome.raised = "none"
  /\ Len(calls) = 1
  /\ calls[1].flow_status = "GraphHasCycle"
  /\ runs = EmptyDict

(***************************************************************************)
(* LocalExecutionManager and ProcessExecutor: the execution of one node.   *)
(***************************************************************************)
MaxOutput == 2

RunIds == {"", "run_1"}

OutputLines == {"", "out", "err"}

ReturnCodes == {0, 1, 2}

RECURSIVE SeqsUpTo(_, _)
SeqsUpTo(S, n) ==
  IF n = 0 THEN {<<>>}
  ELSE SeqsUpTo(S, n - 1) \cup {Append(q, x) : q \in {r \in SeqsUpTo(S, n - 1) : Len(r) = n - 1}, x \in S}

\* the run-scoped paths of a node on the host: input_path points at the
\* previous node's output_path when prev_node is defined
NodePathsOf(node_id, prev_node) ==
  [node_path |-> "runs/run_1/" \o node_id,
   simulation_path |-> "runs/run_1/" \o node_id \o "/source",
   output_path |-> "runs/run_1/" \o node_id \o "/outputs",
   input_path |-> IF prev_node = "" THEN "" ELSE "runs/run_1/" \o prev_node \o "/outputs"]

\* the same paths as the container sees them
ContainerPathsOf(node_id, prev_node) ==
  [node_path |-> "/mnt/node",
   simulation_path |-> "/mnt/node/source",
   output_path |-> "/mnt/outputs",
   input_path |-> IF prev_node = "" THEN "" ELSE "/mnt/inputs"]

container_image(node_id) == node_id \o ":latest"

Mount(host, container) == [host |-> host, container |-> container]

set_input_mount_args_always(node_paths, container_paths) ==
  <<Mount(node_paths.input_path, container_paths.input_path)>>

\* _set_input_mount_args: the -v argument for the inputs, if any
set_input_mount_args(node_paths, container_paths) ==
  IF node_paths.input_path # ""
  THEN <<Mount(node_paths.input_path, container_paths.input_path)>>
  ELSE <<>>

build_environment_vars_always_input(node_id, node_paths, container_paths) ==
  ("FLUIDIZE_NODE_ID" :> node_id) @@
  ("FLUIDIZE_NODE_PATH" :> container_paths.node_path) @@
  ("FLUIDIZE_SIMULATION_PATH" :> container_paths.simulation_path) @@
  ("FLUIDIZE_OUTPUT_PATH" :> container_paths.output_path) @@
  ("FLUIDIZE_EXECUTION_MODE" :> "local_docker") @@
  ("FLUIDIZE_INPUT_PATH" :> container_paths.input_path)

\* _build_environment_vars: the -e arguments, as a dict
build_environment_vars(node_id, node_paths, container_paths) ==
  LET env_vars ==
        ("FLUIDIZE_NODE_ID" :> node_id) @@
        ("FLUIDIZE_NODE_PATH" :> container_paths.node_path) @@
        ("FLUIDIZE_SIMULATION_PATH" :> container_paths.simulation_path) @@
        ("FLUIDIZE_OUTPUT_PATH" :> container_paths.output_path) @@
        ("FLUIDIZE_EXECUTION_MODE" :> "local_docker")
  IN  IF container_paths.input_path # ""
      THEN env_vars @@ ("FLUIDIZE_INPUT_PATH" :> container_paths.input_path)
      ELSE env_vars

\* run_container: the docker run command it hands to the ProcessExecutor
docker_cmd(node_id, node_paths, container_paths) ==
  [mounts |-> <<Mount(node_paths.node_path, container_paths.node_path)>>
                \o set_input_mount_args(node_paths, container_paths)
                \o <<Mount(node_paths.output_path, container_paths.output_path)>>,
   env |-> build_environment_vars(node_id, node_paths, container_paths),
   workdir |-> container_paths.simulation_path,
   entrypoint |-> "/bin/bash",
   image |-> container_image(node_id),
   script |-> container_paths.node_path \o "/main.sh"]

Description(node_id) == "Docker execution: " \o container_image(node_id)

LogEvent(run_id, node_id, message, level) ==
  [run_id |-> run_id, node_id |-> node_id, message |-> message, level |-> level]

broadcast_log_sync_prepend(events, run_id, node_id, message, level) ==
  IF run_id # "" THEN <<LogEvent(run_id, node_id, message, level)>> \o events ELSE events

\* if self.run_id: log_broadcaster.broadcast_log_sync(run_id, node_id, message, level)
broadcast_log_sync(events, run_id, node_id, message, level) ==
  IF run_id # "" THEN Append(events, LogEvent(run_id, node_id, message, level)) ELSE events

\* what execute_with_logging returns: on a return code, or on an exception
\* raised while launching or streaming
ProcessResult(return_code, exception) ==
  IF exception # "none"
  THEN [message |-> "failure: failed: " \o exception, success |-> FALSE]
  ELSE [message |-> execute_with_logging(return_code), success |-> return_code = 0]

\* the ERROR or Completed event that ends execute_with_logging
TerminalEvent(e, return_code, exception) ==
  IF exception # "none"
  THEN broadcast_log_sync(e.events, e.run_id, e.node_id,
                          Description(e.node_id) \o " failed: " \o exception, "ERROR")
  ELSE IF return_code = 0
  THEN broadcast_log_sync(e.events, e.run_id, e.node_id,
                          "Completed: " \o Description(e.node_id), "INFO")
  ELSE broadcast_log_sync(e.events, e.run_id, e.node_id,
                          Description(e.node_id) \o " failed with return code", "ERROR")

\* execute_with_logging returns, and _execute_node with it
Returned(e, return_code, exception) ==
  LET returned == ProcessResult(return_code, exception)
  IN  [e EXCEPT !.pc = "done",
                !.events = TerminalEvent(e, return_code, exception),
                !.return_code = return_code,
                !.exception = exception,
                !.returned = returned,
                !.result = execute_node(e.pull_ok, returned.message)]

(***************************************************************************)
(* SpecExec: _execute_node on one node, with or without a previous node,   *)
(* with or without a run id, whose container writes up to MaxOutput lines. *)
(***************************************************************************)
ExecInputs ==
  {[NoExec EXCEPT !.pc = "ready", !.node_id = n, !.prev_node = p, !.run_id = r, !.output = o] :
     n \in NodeIds, p \in {""} \cup NodeIds, r \in RunIds, o \in SeqsUpTo(OutputLines, MaxOutput)}

InitExec ==
  /\ graph = EmptyGraph
  /\ raised = "none"
  /\ file = AbsentFile
  /\ dirs = {}
  /\ outcome = NoOutcome
  /\ IdleRun
  /\ writer = NoWriter
  /\ exec \in {e \in ExecInputs : e.prev_node # e.node_id}
  /\ store = NoStore

\* _execute_node: pull_docker_image, and the return when it fails
PullDockerImage ==
  \E pulled \in BOOLEAN :
    LET result == execute_node(pulled, "running")
    IN  /\ exec.pc = "ready"
        /\ exec' = IF result = "running"
                   THEN [exec EXCEPT !.pc = "pulled", !.pulls = @ + 1, !.pull_ok = pulled]
                   ELSE [exec EXCEPT !.pc = "done", !.pulls = @ + 1, !.pull_ok = pulled,
                                     !.result = result]
        /\ UNCHANGED <<graphVars, file, procVars, runVars, writer, store>>

\* run_container up to subprocess.Popen, which may raise
RunContainer ==
  \E launched \in BOOLEAN :
    LET node_paths == NodePathsOf(exec.node_id, exec.prev_node)
        container_paths == ContainerPathsOf(exec.node_id, exec.prev_node)
        started == [exec EXCEPT
                      !.command = docker_cmd(exec.node_id, node_paths, container_paths),
                      !.events = broadcast_log_sync(exec.events, exec.run_id, exec.node_id,
                                                    "Starting: " \o Description(exec.node_id), "INFO")]
    IN  /\ exec.pc = "pulled"
        /\ exec' = IF launched
                   THEN [started EXCEPT !.pc = "streaming", !.launched = TRUE]
                   ELSE Returned(started, -1, "OSError")
        /\ UNCHANGED <<graphVars, file, procVars, runVars, writer, store>>

\* for line in process.stdout: one line is read, or reading raises
StreamLine ==
  \E decoded \in BOOLEAN :
    LET line == Head(exec.output)
    IN  /\ exec.pc = "streaming"
        /\ exec.output # <<>>
        /\ exec' = IF decoded
                   THEN [exec EXCEPT
                           !.output = Tail(@),
                           !.read = Append(@, line),
                           !.events = IF line # ""
                                      THEN broadcast_log_sync(@, exec.run_id, exec.node_id, line, "INFO")
                                      ELSE @]
                   ELSE Returned(exec, -1, "UnicodeDecodeError")
        /\ UNCHANGED <<graphVars, file, procVars, runVars, writer, store>>

\* the output is exhausted: process.wait() and the return
ProcessExit ==
  \E return_code \in ReturnCodes :
    /\ exec.pc = "streaming"
    /\ exec.output = <<>>
    /\ exec' = Returned(exec, return_code, "none")
    /\ UNCHANGED <<graphVars, file, procVars, runVars, writer, store>>

NextExec == PullDockerImage \/ RunContainer \/ StreamLine \/ ProcessExit

SpecExec == InitExec /\ [][NextExec]_vars

StartsWith(s, prefix) == Len(s) >= Len(prefix) /\ SubSeq(s, 1, Len(prefix)) = prefix

RequiredEnvironment ==
  {"FLUIDIZE_NODE_ID", "FLUIDIZE_NODE_PATH", "FLUIDIZE_SIMULATION_PATH",
   "FLUIDIZE_OUTPUT_PATH", "FLUIDIZE_EXECUTION_MODE"}

\* C21: the container invocation built for a node sets FLUIDIZE_INPUT_PATH
\* iff the node has a predecessor, always sets FLUIDIZE_NODE_ID,
\* FLUIDIZE_NODE_PATH, FLUIDIZE_SIMULATION_PATH, FLUIDIZE_OUTPUT_PATH and
\* FLUIDIZE_EXECUTION_MODE=local_docker, and its working directory is the
\* value of FLUIDIZE_SIMULATION_PATH.
C21_ContainerEnvironment ==
  exec.pc \in {"streaming", "done"} /\ exec.pull_ok =>
    LET env == exec.command.env
    IN  /\ ("FLUIDIZE_INPUT_PATH" \in DOMAIN env) <=> (exec.prev_node # "")
        /\ RequiredEnvironment \subseteq DOMAIN env
        /\ env["FLUIDIZE_NODE_ID"] = exec.node_id
        /\ env["FLUIDIZE_EXECUTION_MODE"] = "local_docker"
        /\ exec.command.workdir = env["FLUIDIZE_SIMULATION_PATH"]

C21_Witness ==
  /\ exec.launched
  /\ exec.prev_node # ""
  /\ "FLUIDIZE_INPUT_PATH" \in DOMAIN exec.command.env
  /\ exec.command.workdir = "/mnt/node/source"

\* C22: node execution pulls the image before it runs the container: when
\* the pull fails the result is "failure: docker pull failed" and no
\* container is ever run, and a container is run only after a pull that
\* succeeded.
C22_PullBeforeRun ==
  /\ (exec.command # NoCommand \/ exec.launched) => (exec.pulls = 1 /\ exec.pull_ok)
  /\ (exec.pulls > 0 /\ ~exec.pull_ok) =>
       /\ exec.pc = "done"
       /\ exec.result = "failure: docker pull failed"
       /\ exec.command = NoCommand
       /\ ~exec.launched
       /\ exec.events = <<>>

C22_Witness ==
  /\ exec.pc = "done"
  /\ exec.pulls = 1
  /\ ~exec.pull_ok
  /\ exec.result = "failure: docker pull failed"

\* C23: the process executor returns ("success", True) iff the child exited
\* with code zero; on a nonzero exit code, and on any exception raised
\* while launching the child or streaming its output, it returns a message
\* that starts with "failure:" and False.
C23_ExecutorResult ==
  exec.pc = "done" /\ exec.command # NoCommand =>
    /\ (exec.returned = [message |-> "success", success |-> TRUE])
         <=> (exec.exception = "none" /\ exec.return_code = 0)
    /\ (exec.exception # "none" \/ exec.return_code # 0) =>
         (StartsWith(exec.returned.message, "failure:") /\ ~exec.returned.success)

C23_Witness ==
  /\ exec.pc = "done"
  /\ exec.exception = "UnicodeDecodeError"
  /\ exec.read # <<>>
  /\ StartsWith(exec.returned.message, "failure:")
  /\ ~exec.returned.success

\* the lines read so far that are not empty
NonEmptyRead == SelectSeq(exec.read, LAMBDA line : line # "")

\* C32: the log events of one execute_with_logging call with a run id are
\* ordered: first one "Starting: <description>" event, then the output lines
\* in the order they were read, then exactly one terminal event ("Completed"
\* at INFO on exit code 0, otherwise an ERROR event); no output line follows
\* the terminal event.
C32_LogEventOrder ==
  (exec.run_id # "" /\ exec.command # NoCommand) =>
    LET events == exec.events
        lines == NonEmptyRead
    IN  /\ Len(events) = Len(lines) + (IF exec.pc = "done" THEN 2 ELSE 1)
        /\ events[1] = LogEvent(exec.run_id, exec.node_id,
                                "Starting: " \o Description(exec.node_id), "INFO")
        /\ \A i \in 1..Len(lines) :
             events[i + 1] = LogEvent(exec.run_id, exec.node_id, lines[i], "INFO")
        /\ exec.pc = "done" =>
             LET last == events[Len(events)]
             IN  IF exec.exception = "none" /\ exec.return_code = 0
                 THEN last = LogEvent(exec.run_id, exec.node_id,
                                      "Completed: " \o Description(exec.node_id), "INFO")
                 ELSE last.level = "ERROR" /\ last.run_id = exec.run_id
                      /\ last.node_id = exec.node_id

\* two different lines were read and the child exited with code 0
C32_Witness ==
  /\ exec.pc = "done"
  /\ exec.run_id # ""
  /\ exec.return_code = 0
  /\ exec.read = <<"out", "err">>
  /\ Len(exec.events) = 4
  /\ exec.events[4].level = "INFO"

\* C33: every line the container writes to stdout or stderr, an empty line
\* included, produces exactly one INFO log event tagged with the run id and
\* the node id.
C33_EveryLineLogged ==
  (exec.run_id # "" /\ exec.command # NoCommand) =>
    Cardinality({i \in DOMAIN exec.events :
                   /\ exec.events[i].level = "INFO"
                   /\ i > 1
                   /\ ~(exec.pc = "done" /\ i = Len(exec.events))})
      = Len(exec.read)

\* the bind mounts of the command other than the node's and the outputs'
InputMounts ==
  {i \in DOMAIN exec.command.mounts :
     exec.command.mounts[i].container
       \notin {exec.command.env["FLUIDIZE_NODE_PATH"], exec.command.env["FLUIDIZE_OUTPUT_PATH"]}}

\* C34: in the docker command built by run_container the input bind mount
\* (-v <input>:<container input>) is present iff FLUIDIZE_INPUT_PATH is among
\* the environment variables passed to the container.
C34_InputMountIffInputEnv ==
  exec.command # NoCommand =>
    /\ (InputMounts # {}) <=> ("FLUIDIZE_INPUT_PATH" \in DOMAIN exec.command.env)
    /\ \A i \in InputMounts :
         exec.command.mounts[i].container = exec.command.env["FLUIDIZE_INPUT_PATH"]

\* a node without a previous node: two mounts and no FLUIDIZE_INPUT_PATH
C34_Witness ==
  /\ exec.command # NoCommand
  /\ exec.prev_node = ""
  /\ Len(exec.command.mounts) = 2
  /\ "FLUIDIZE_INPUT_PATH" \notin DOMAIN exec.command.env


(***************************************************************************)
(* SpecRace: threads 1..MaxThreads call run_flow on one project at the     *)
(* same time.  Each plans, then prepare_run_environment lists runs/ and    *)
(* creates runs/run_<n>/ (create_directory makes missing parents and does  *)
(* not fail on a directory that exists); run_flow takes no lock.  The      *)
(* execution that follows is that of SpecRun and touches no run number.    *)
(***************************************************************************)
Threads == 1..MaxThreads

InitRace ==
  /\ graph = EmptyGraph
  /\ raised = "none"
  /\ file \in {JsonFile([nodes |-> n, edges |-> <<>>]) : n \in NodeLists}
  /\ dirs = FileNodes
  /\ outcome = NoOutcome
  /\ plan = NoPlan
  /\ runDirs \in {{}} \cup {{n} : n \in 1..MaxPreRun}
  /\ runs = EmptyDict
  /\ calls = <<>>
  /\ threads = [t \in Threads |-> [pc |-> "start", seen |-> {}, run_number |-> 0]]
  /\ writer = NoWriter
  /\ exec = NoExec
  /\ store = NoStore

\* run_flow plans and raises, or enters prepare_run_environment, which
\* lists the run directories
RaceList ==
  \E t \in Threads :
    /\ threads[t].pc = "start"
    /\ threads' = [threads EXCEPT ![t] =
                     IF RunFlowPlan(file).raised # "none"
                     THEN [@ EXCEPT !.pc = "raised"]
                     ELSE [@ EXCEPT !.pc = "listed", !.seen = runDirs]]
    /\ UNCHANGED <<graphVars, file, procVars, plan, runDirs, runs, calls, writer, exec, store>>

\* prepare_run_environment creates runs/run_<n>/ and returns n
RaceCreate ==
  \E t \in Threads :
    /\ threads[t].pc = "listed"
    /\ threads' = [threads EXCEPT ![t] =
                     [@ EXCEPT !.pc = "created", !.run_number = NextRunNumber(threads[t].seen)]]
    /\ runDirs' = runDirs \cup {NextRunNumber(threads[t].seen)}
    /\ UNCHANGED <<graphVars, file, procVars, plan, runs, calls, writer, exec, store>>

NextRace == RaceList \/ RaceCreate

SpecRace == InitRace /\ [][NextRace]_vars

\* C8: run-number allocation is serialized: two run_flow invocations that
\* run at the same time on one project never obtain the same run_number (and
\* so never write into the same run_<n> directory).
C8_DistinctRunNumbers ==
  \A t, u \in Threads :
    (t # u /\ threads[t].pc = "created" /\ threads[u].pc = "created")
      => threads[t].run_number # threads[u].run_number

(***************************************************************************)
(* SpecInsert: threads 1..MaxThreads call insert_node on one project at    *)
(* the same time, each with a node id of its own.  insert_node loads       *)
(* graph.json, adds its node to the Graph it loaded and saves that Graph;  *)
(* it takes no lock, so the calls interleave between the load and the save.*)
(***************************************************************************)
InitInsert ==
  /\ graph = EmptyGraph
  /\ raised = "none"
  /\ file \in {AbsentFile} \cup {JsonFile([nodes |-> n, edges |-> <<>>]) : n \in NodeLists}
  /\ dirs = FileNodes
  /\ outcome = NoOutcome
  /\ plan = NoPlan
  /\ runDirs = {}
  /\ runs = EmptyDict
  /\ calls = <<>>
  /\ threads = [t \in Threads |-> [pc |-> "start", node |-> [id |-> ""], graph |-> EmptyGraph]]
  /\ writer = NoWriter
  /\ exec = NoExec
  /\ store = NoStore

\* insert_node up to graph.add_node: Graph.from_file, then add_node on the
\* Graph object of this call
InsertLoad ==
  \E t \in Threads, node \in NodeInputs :
    LET loaded == from_file(file)
    IN  /\ threads[t].pc = "start"
        /\ \A u \in Threads \ {t} : threads[u].node.id # node.id
        /\ threads' = [threads EXCEPT ![t] =
                         IF loaded.raised # "none"
                         THEN [pc |-> "raised", node |-> node, graph |-> EmptyGraph]
                         ELSE [pc |-> "loaded", node |-> node,
                               graph |-> add_node(loaded.graph, node)]]
        /\ UNCHANGED <<graphVars, file, procVars, plan, runDirs, runs, calls, writer, exec, store>>

\* insert_node from graph.save_to_file to its return
InsertSave ==
  \E t \in Threads :
  \E copy_ok \in (IF threads[t].node.id # "" /\ threads[t].node.simulation_id = "sim"
                  THEN BOOLEAN ELSE {TRUE}) :
    LET node == threads[t].node
        made == create_node_directory(node, copy_ok)
    IN  /\ threads[t].pc = "loaded"
        /\ file' = save_to_file(threads[t].graph)
        /\ dirs' = IF made.created THEN dirs \cup {node.id} ELSE dirs
        /\ threads' = [threads EXCEPT ![t] =
                         [@ EXCEPT !.pc = IF made.error.type = "none"
                                          THEN "returned" ELSE "raised"]]
        /\ UNCHANGED <<graphVars, outcome, plan, runDirs, runs, calls, writer, exec, store>>

NextInsert == InsertLoad \/ InsertSave

SpecInsert == InitInsert /\ [][NextInsert]_vars

\* C28: graph mutations on one project lose no update: when two insert_node
\* calls with distinct node ids run at the same time on one project and both
\* return, graph.json holds both nodes.
C28_NoLostUpdate ==
  \A t, u \in Threads :
    (t # u /\ threads[t].pc = "returned" /\ threads[u].pc = "returned")
      => {threads[t].node.id, threads[u].node.id} \subseteq FileNodes

(***************************************************************************)
(* SpecProject: ProjectProcessor.insert_project on one project id, whose   *)
(* directory is absent, or holds a project (metadata.yaml, parameters.json *)
(* and graph.json), or holds a graph.json written by GraphProcessor and no *)
(* metadata.yaml, or holds a metadata.yaml that does not parse.            *)
(***************************************************************************)
\* the ProjectSummary contents offered to insert_project
ProjectInputs == {"summary_1", "summary_2"}

\* ProjectSummary.from_file(project_path): the metadata.yaml is read
ProjectSummary_from_file(st) ==
  IF st.metadata = "absent" THEN [project |-> "", raised |-> "FileNotFoundError"]
  ELSE IF st.metadata = "invalid" THEN [project |-> "", raised |-> "ValueError"]
  ELSE [project |-> st.metadata, raised |-> "none"]

\* get_project: FileNotFoundError when the project directory does not exist
get_project(st) ==
  IF ~st.dir THEN [project |-> "", raised |-> "FileNotFoundError"]
  ELSE ProjectSummary_from_file(st)

\* _create_new_project: empty parameters.json and graph.json, then metadata.yaml
create_new_project(st, f, project) ==
  [store |-> [dir |-> TRUE, metadata |-> project, parameters |-> "empty"],
   file |-> JsonFile(EmptyGraphData), raised |-> "none"]

\* _update_project_metadata: metadata.yaml alone is written
update_project_metadata(st, f, project) ==
  [store |-> [st EXCEPT !.metadata = project], file |-> f, raised |-> "none"]

insert_project_recreates(st, f, project) == create_new_project(st, f, project)

\* insert_project: update when get_project returns, create when it raises
\* FileNotFoundError; any other exception reaches the caller
insert_project(st, f, project) ==
  LET got == get_project(st)
  IN  IF got.raised = "none" THEN update_project_metadata(st, f, project)
      ELSE IF got.raised = "FileNotFoundError" THEN create_new_project(st, f, project)
      ELSE [store |-> st, file |-> f, raised |-> got.raised]

ProjectFiles ==
  {JsonFile([nodes |-> n, edges |-> e]) : n \in NodeLists, e \in EdgeListsUpTo(1)}

ProjectStores ==
  {[dir |-> TRUE, metadata |-> m, parameters |-> q] :
     m \in ProjectInputs \cup {"invalid"}, q \in {"empty", "set"}}
  \cup {[dir |-> TRUE, metadata |-> "absent", parameters |-> "absent"]}

InitProject ==
  /\ graph = EmptyGraph
  /\ raised = "none"
  /\ \/ store = NoStore /\ file = AbsentFile
     \/ store \in ProjectStores /\ file \in ProjectFiles
  /\ dirs = FileNodes
  /\ outcome = NoOutcome
  /\ IdleRun
  /\ writer = NoWriter
  /\ exec = NoExec

\* ProjectProcessor.insert_project
InsertProject ==
  \E project \in ProjectInputs :
    LET done == insert_project(store, file, project)
    IN  /\ store' = done.store
        /\ file' = done.file
        /\ outcome' = Outcome("insert_project", [id |-> project],
                              Exception(done.raised, ""), "no",
                              IF get_project(store).raised = "FileNotFoundError" THEN 1 ELSE 0,
                              {}, EmptyGraphData)
        /\ UNCHANGED <<graphVars, dirs, runVars, writer, exec>>

NextProject == InsertProject

SpecProject == InitProject /\ [][NextProject]_vars

\* C37: insert_project on a project id that already exists rewrites only
\* metadata.yaml: the project's graph.json and parameters.json are left as
\* they were; on a new id it creates an empty graph ({nodes: [], edges: []})
\* and empty parameters.
C37_UpsertKeepsGraph ==
  [][outcome'.op = "insert_project"
     => (/\ (store.dir /\ store.metadata \in ProjectInputs)
              => (/\ outcome'.raised = "none"
                  /\ file' = file
                  /\ store'.parameters = store.parameters
                  /\ store'.metadata = outcome'.arg.id
                  /\ dirs' = dirs)
         /\ ~store.dir
              => (/\ outcome'.raised = "none"
                  /\ file' = JsonFile(EmptyGraphData)
                  /\ store' = [dir |-> TRUE, metadata |-> outcome'.arg.id,
                               parameters |-> "empty"]))]_vars

\* insert_project has rewritten the metadata of a project that has nodes
\* and parameters
C37_Witness ==
  /\ outcome.op = "insert_project"
  /\ outcome.raised = "none"
  /\ store.metadata = "summary_2"
  /\ store.parameters = "set"
  /\ Len(file.data.nodes) = 2
  /\ file.data.edges # <<>>

(***************************************************************************)
(* SpecSave: Graph.save_to_file step by step, as insert_node and           *)
(* update_node_position reach it: open(path, "w") truncates graph.json,    *)
(* json.dump writes the document into it, leaving the with block closes    *)
(* it.  The process may die in between, and get_graph may read the file    *)
(* at any time.                                                            *)
(***************************************************************************)
InitSave ==
  /\ graph = EmptyGraph
  /\ raised = "none"
  /\ file \in {AbsentFile} \cup {JsonFile([nodes |-> n, edges |-> <<>>]) : n \in NodeLists}
  /\ dirs = FileNodes
  /\ outcome = NoOutcome
  /\ IdleRun
  /\ writer = NoWriter
  /\ exec = NoExec
  /\ store = NoStore

\* from_file, add_node, then save_to_file up to open(path, "w")
SaveOpen ==
  \E node \in NodeInputs :
    LET loaded == from_file(file)
    IN  /\ writer.pc = "idle"
        /\ loaded.raised = "none"
        /\ writer' = [pc |-> "opened", before |-> file,
                      pending |-> to_graph_data(add_node(loaded.graph, node))]
        /\ file' = [kind |-> "empty", data |-> EmptyGraphData]
        /\ UNCHANGED <<graphVars, procVars, runVars, exec, store>>

\* json.dump has written a part of the document
SaveWrite ==
  /\ writer.pc = "opened"
  /\ writer' = [writer EXCEPT !.pc = "writing"]
  /\ file' = [kind |-> "partial", data |-> EmptyGraphData]
  /\ UNCHANGED <<graphVars, procVars, runVars, exec, store>>

\* the document is written and the file closed
SaveClose ==
  /\ writer.pc \in {"opened", "writing"}
  /\ writer' = [writer EXCEPT !.pc = "idle"]
  /\ file' = JsonFile(writer.pending)
  /\ UNCHANGED <<graphVars, procVars, runVars, exec, store>>

\* the process dies inside save_to_file
SaveCrash ==
  /\ writer.pc \in {"opened", "writing"}
  /\ writer' = [writer EXCEPT !.pc = "crashed"]
  /\ UNCHANGED <<graphVars, file, procVars, runVars, exec, store>>

\* GraphProcessor.get_graph in another process: graph is what it returns
ReadGraph ==
  LET loaded == from_file(file)
  IN  /\ graph' = IF loaded.raised # "none" THEN EmptyGraph ELSE heal(loaded.graph)
      /\ raised' = "none"
      /\ UNCHANGED <<file, procVars, runVars, writer, exec, store>>

NextSave == SaveOpen \/ SaveWrite \/ SaveClose \/ SaveCrash \/ ReadGraph

SpecSave == InitSave /\ [][NextSave]_vars

\* C10: writes of graph.json are atomic: at every point of a save_to_file,
\* a crash in the middle included, graph.json holds the complete previous
\* content or the complete new content, never an empty or half-written file.
C10_AtomicWrite ==
  writer.pc # "idle" => (file = writer.before \/ file = JsonFile(writer.pending))

=============================================================================
